---- MODULE Spec2Model ----
(***************************************************************************)
(* ARC_Trainer: the TaskManager puzzle pipeline and the GraphRAG ontology  *)
(* store, each over the Neo4j knowledge graph.                             *)
(*                                                                         *)
(* The knowledge graph is modelled as sequences of nodes (a node's         *)
(* identity is its position); a node property is <<>> when absent and      *)
(* <<v>> when set.  One Cypher statement (one session.run) is one atomic   *)
(* step of the graph.  A statement that the driver cannot execute raises;  *)
(* "budget" is the number of statements of the current call that execute   *)
(* before the database stops answering.                                    *)
(***************************************************************************)
EXTENDS Integers, Sequences, FiniteSets, TLC

VARIABLES
    tasks,          \* Task nodes, in creation order
    cex,            \* Counterexample nodes, in creation order
    rules,          \* OntologyRule nodes, in creation order
    pngs,           \* files present in generated_images/
    llmCalls,       \* number of LLMClient.query_llm invocations so far
    blipCalls,      \* number of call_blip_on_image invocations so far
    blipConfigured, \* HF_BLIP_ENDPOINT and HF_BEARER_TOKEN are both set
    calls,          \* number of handler calls started so far
    failedLogs,     \* per puzzle name: log_llm_solution calls made with success false
    goodLogs,       \* per puzzle name: those of them that returned normally
    lastTried,      \* per rule id: arguments of the latest store call
    lastStore,      \* per rule id: arguments of the latest store that executed
    last,           \* the latest completed call: operation, inputs, pre-state, result
    pc,             \* per concurrent caller: position inside its handler
    kg,             \* Session and Feedback nodes and their relationships
    fb,             \* the latest call of SpecFb: inputs and result
    fbMatched,      \* submit_feedback statements that ran and matched a Task
    submits,        \* number of submit_feedback calls so far
    kb,             \* the clauses of the Prolog knowledge base, in order
    pl,             \* the latest call of SpecProlog: inputs, answers, result
    plCalls,        \* number of validations so far
    exFiles,        \* files present in exports/
    exOpen,         \* database drivers created and not closed
    ex,             \* the latest call of SpecExport: inputs and result
    exCalls,        \* number of GET /export requests so far
    guess,          \* SpecParse: an LLM response and what parse_llm_guess made of it
    llm             \* the latest call of SpecLlm: inputs, POSTs, invocations, result

\* The variables of the components outside TaskManager and GraphRAG.
llmVars == <<llm>>
fbVars == <<kg, fb, fbMatched, submits>>
plVars == <<kb, pl, plCalls>>
exVars == <<exFiles, exOpen, ex, exCalls>>
parseVars == <<guess>>
extVars == <<llmVars, fbVars, plVars, exVars, parseVars>>

\* The variables of the TaskManager and GraphRAG components.
coreVars == <<tasks, cex, rules, pngs, llmCalls, blipCalls, blipConfigured, calls,
              failedLogs, goodLogs, lastTried, lastStore, last, pc>>

\* What the calls of one component leave alone among the others' variables.
extButLlm == <<fbVars, plVars, exVars, parseVars>>
extButFb == <<llmVars, plVars, exVars, parseVars>>
extButPl == <<llmVars, fbVars, exVars, parseVars>>
extButEx == <<llmVars, fbVars, plVars, parseVars>>
extButParse == <<llmVars, fbVars, plVars, exVars>>

vars == <<tasks, cex, rules, pngs, llmCalls, blipCalls, blipConfigured, calls,
          failedLogs, goodLogs, lastTried, lastStore, last, pc, extVars>>

----------------------------------------------------------------------------
(* Bounds of the model *)

MaxCalls == 2       \* handler calls per behaviour of Spec
MaxStmts == 5       \* budget value at which no statement of a call fails
MaxOntCalls == 2    \* GraphRAG calls per behaviour of SpecOnt
MaxLlmCalls == 2    \* calls per behaviour of SpecLlm
MaxSubmits == 2     \* submit_feedback calls per behaviour of SpecFb
MaxPlCalls == 2     \* validations per behaviour of SpecProlog
MaxTests == 1       \* test cases per validation
MaxDim == 2         \* rows and columns of the grid sizes in the LLM texts
MaxExports == 2     \* GET /export requests

----------------------------------------------------------------------------
(* Values *)

NoExc == ""
Absent == <<>>
Prop(v) == <<v>>

\* Puzzle names: files of datasets/evaluation/<name>.json, or no file at all.
Names == {"absent", "garbled", "nokeys", "notest", "puzzle"}

G1 == << <<1>> >>
G2 == << <<2>> >>
EmptyGrid == <<>>

\* What datasets/evaluation/<name>.json holds.
\*   exists: the file is there;  json: it parses;  keys: it is a dict with
\*   "train" and "test";  train, test: the example lists.
FileOf(name) ==
    CASE name = "absent"  -> [exists |-> FALSE, json |-> FALSE, keys |-> FALSE,
                              train |-> <<>>, test |-> <<>>]
      [] name = "garbled" -> [exists |-> TRUE, json |-> FALSE, keys |-> FALSE,
                              train |-> <<>>, test |-> <<>>]
      [] name = "nokeys"  -> [exists |-> TRUE, json |-> TRUE, keys |-> FALSE,
                              train |-> <<[input |-> G1, output |-> G2]>>,
                              test |-> <<>>]
      [] name = "notest"  -> [exists |-> TRUE, json |-> TRUE, keys |-> TRUE,
                              train |-> <<[input |-> G1, output |-> EmptyGrid]>>,
                              test |-> <<>>]
      [] OTHER            -> [exists |-> TRUE, json |-> TRUE, keys |-> TRUE,
                              train |-> <<[input |-> G1, output |-> G2]>>,
                              test |-> <<[input |-> G1, output |-> G2]>>]

\* LLM texts.  DictText stands for a value that is a dict, not a string
\* (what raw_llm_text is when query_llm returns {"error", "response": {...}}).
DictText == "<dict>"

\* The texts the two regular expressions of parse_llm_guess match: a grid
\* size rows x cols, a bracketed colour list, or both.  colors is the text
\* between the brackets.
ColorGroups == {"2", "0, 3", "1,"}
Dims == 0..MaxDim

SizePart(r, c) == "Output Grid Size: " \o ToString(r) \o "x" \o ToString(c)
ColorsPart(g) == "Colors Present: [" \o g \o "]"

MatchTexts ==
    {[text |-> SizePart(r, c), size |-> <<r, c>>, colors |-> <<>>] :
        r \in Dims, c \in Dims}
    \cup {[text |-> ColorsPart(g), size |-> <<>>, colors |-> <<g>>] : g \in ColorGroups}
    \cup {[text |-> SizePart(rc[1], rc[2]) \o " " \o ColorsPart(g), size |-> rc,
           colors |-> <<g>>] : rc \in Dims \X Dims, g \in ColorGroups}

SizeText == "Output Grid Size: 1x1 Colors Present: [2]"
Texts ==
    {"", "[[2]]", "[]", "{\"a\": 1}", "7", "no idea", DictText}
    \cup {m.text : m \in MatchTexts}
StrTexts == Texts \ {DictText}

IsStr(t) == t # DictText

\* json.loads(t) for a non-empty string t: kind "list" with its value,
\* kind "other" for valid JSON that is no list, kind "invalid" for JSONDecodeError.
JsonLoads(t) ==
    CASE t = "[[2]]"        -> [kind |-> "list", grid |-> G2]
      [] t = "[]"           -> [kind |-> "list", grid |-> <<>>]
      [] t = "{\"a\": 1}"   -> [kind |-> "other", grid |-> <<>>]
      [] t = "7"            -> [kind |-> "other", grid |-> <<>>]
      [] OTHER              -> [kind |-> "invalid", grid |-> <<>>]

EmptyMessage == "LLM response was empty or not in expected format."


\* Names bound at module level in task_manager.py (its imports).
ModuleNames ==
    {"os", "json", "random", "uuid", "Path", "current_app", "send_file",
     "jsonify", "logger", "GraphDatabase", "Image", "ImageDraw", "requests",
     "LLMClient", "PrologRuleGenerator", "LearningAgent", "load_dotenv"}

\* Evaluating a global name: NameError unless the module binds it.
NameLookup(n) == IF n \in ModuleNames THEN NoExc ELSE "NameError"

\* Methods defined by class TaskManager.
TaskManagerMethods ==
    {"close", "get_random_task", "load_arc_task", "extract_grid_details",
     "_process_full_puzzle_flow", "parse_llm_guess", "validate_task_data",
     "init_puzzle_in_kg", "process_puzzle_grids", "generate_png",
     "call_blip_on_image", "_maybe_call_blip", "build_llm_prompt",
     "log_llm_solution", "attempt_solution", "check_knowledge_graph",
     "load_lhe_task"}

\* Evaluating self.<m>: AttributeError unless the class defines it.
AttrLookup(m) == IF m \in TaskManagerMethods THEN NoExc ELSE "AttributeError"

\* re.search(r"Output Grid Size[:\s]+(\d+)x(\d+)", t): <<>> or <<rows, cols>>.
ReGridSize(t) ==
    IF \E m \in MatchTexts : m.text = t
    THEN (CHOOSE m \in MatchTexts : m.text = t).size
    ELSE <<>>

\* re.search(r"Colors Present[:\s]+\[([0-9,\s]+)\]", t): <<>> or <<group 1>>.
ReColors(t) ==
    IF \E m \in MatchTexts : m.text = t
    THEN (CHOOSE m \in MatchTexts : m.text = t).colors
    ELSE <<>>

\* list(map(int, group.split(','))): int('') raises ValueError.
IntList(g) ==
    CASE g = "2"    -> [exc |-> NoExc, list |-> <<2>>]
      [] g = "0, 3" -> [exc |-> NoExc, list |-> <<0, 3>>]
      [] OTHER      -> [exc |-> "ValueError", list |-> <<>>]

FilledGrid(rows, cols, fill) == [r \in 1..rows |-> [c \in 1..cols |-> fill]]

\* The value parse_llm_guess returns, or the exception it raises.
Guess(exc, kind, grid, text) ==
    [exc |-> exc, kind |-> kind, grid |-> grid, text |-> text]

parse_llm_guess(t) ==
    IF t = "" \/ ~IsStr(t)
    THEN Guess(NoExc, "str", <<>>, EmptyMessage)
    ELSE IF JsonLoads(t).kind = "list"
    THEN Guess(NoExc, "list", JsonLoads(t).grid, "")
    ELSE IF NameLookup("re") # NoExc
    THEN Guess(NameLookup("re"), "none", <<>>, "")
    ELSE IF ReGridSize(t) # <<>> /\ ReColors(t) # <<>>
    THEN (IF IntList(ReColors(t)[1]).exc # NoExc
          THEN Guess(IntList(ReColors(t)[1]).exc, "none", <<>>, "")
          ELSE Guess(NoExc, "list",
                     FilledGrid(ReGridSize(t)[1], ReGridSize(t)[2],
                                IntList(ReColors(t)[1]).list[1]), ""))
    ELSE Guess(NoExc, "str", <<>>, t)

\* Mutant: the validation accepts a document without the two keys.
validate_task_data_any(f) == TRUE

\* isinstance(task_data, dict) and "train" in task_data and "test" in task_data
validate_task_data(f) == f.keys

\* The try block of the loaders: json.load raises JSONDecodeError, a failed
\* validation raises ValueError; both are caught and answered with 500.
LoadFails(f) == ~f.json \/ ~validate_task_data(f)

----------------------------------------------------------------------------
(* The world a call works on: the graph, the image directory, the call      *)
(* counters, and the call's own environment (budget, pngFail, blip) and     *)
(* pending exception.  Every step is skipped once an exception is pending.  *)

World(b, pf) ==
    [tasks |-> tasks, cex |-> cex, pngs |-> pngs, llmCalls |-> llmCalls,
     blipCalls |-> blipCalls, blip |-> blipConfigured,
     failedLogs |-> failedLogs, goodLogs |-> goodLogs,
     budget |-> b, pngFail |-> pf, exc |-> NoExc]

Raise(w, e) == [w EXCEPT !.exc = e]

\* session.run of one statement whose effect on the world is w2.
\* storable: every property value the statement sets is a primitive.
DbRun(w, storable, w2) ==
    IF w.exc # NoExc THEN w
    ELSE IF w.budget = 0 THEN Raise(w, "ServiceUnavailable")
    ELSE IF ~storable THEN Raise([w EXCEPT !.budget = w.budget - 1], "CypherTypeError")
    ELSE [w2 EXCEPT !.budget = w.budget - 1]

\* Positions of the Task nodes with the given name.
TasksNamed(ts, name) == {i \in 1..Len(ts) : ts[i].name = name}

Min(S) == CHOOSE x \in S : \A y \in S : x <= y

\* MATCH (t:Task {name: $name}) RETURN t LIMIT 1 ... .single():
\* 0 for no record, else the position of the node returned.
MatchTask(ts, name) ==
    IF TasksNamed(ts, name) = {} THEN 0 ELSE Min(TasksNamed(ts, name))

NewTask(name, domain) ==
    [name |-> name, domain |-> domain, llm_text |-> Absent, success |-> Absent,
     id |-> Absent, ai_trust_score |-> Absent]

\* Mutant: the statement is a MERGE on name, creating only when no Task
\* with the name exists as it runs.
CreateTask_merge(w, name) ==
    DbRun(w, TRUE,
          IF TasksNamed(w.tasks, name) = {}
          THEN [w EXCEPT !.tasks = Append(w.tasks, NewTask(name, Prop("arc")))]
          ELSE w)

\* CREATE (t:Task {name: $name, domain: 'arc'})
CreateTask(w, name) ==
    DbRun(w, TRUE, [w EXCEPT !.tasks = Append(w.tasks, NewTask(name, Prop("arc")))])

\* The MATCH statement of init_puzzle_in_kg; it changes nothing.
MatchStmt(w, name) == DbRun(w, TRUE, w)

\* Mutant: the CREATE runs whether or not the MATCH returned a record.
init_puzzle_in_kg_always_creates(w, name) ==
    CreateTask(MatchStmt(w, name), name)

\* init_puzzle_in_kg: look the Task up, create it when no record came back.
init_puzzle_in_kg(w, name) ==
    LET m == MatchStmt(w, name)
    IN  IF m.exc # NoExc THEN m
        ELSE IF MatchTask(m.tasks, name) = 0 THEN CreateTask(m, name)
        ELSE m


\* generate_png: no file for an empty grid, else img.save under
\* generated_images/<name>_<label>.png (which raises when the save fails).
generate_png(w, name, grid, label) ==
    IF w.exc # NoExc \/ grid = EmptyGrid THEN w
    ELSE IF w.pngFail THEN Raise(w, "OSError")
    ELSE [w EXCEPT !.pngs = w.pngs \cup {<<name, label[1], label[2]>>}]

\* call_blip_on_image on an existing image with BLIP configured: the first
\* statement of its try block evaluates base64, and only RequestException
\* is caught.
call_blip_on_image(w) ==
    IF NameLookup("base64") # NoExc
    THEN Raise([w EXCEPT !.blipCalls = w.blipCalls + 1], NameLookup("base64"))
    ELSE [w EXCEPT !.blipCalls = w.blipCalls + 1]

\* _maybe_call_blip(file) right after generate_png(grid) returned file.
maybe_call_blip(w, grid) ==
    IF w.exc # NoExc \/ grid = EmptyGrid THEN w
    ELSE IF ~w.blip THEN w
    ELSE call_blip_on_image(w)

\* The loop over the training examples, from example i on.
RECURSIVE TrainLoop(_, _, _, _)
TrainLoop(w, name, exs, i) ==
    IF i > Len(exs) THEN w
    ELSE LET w1 == generate_png(w, name, exs[i].input, <<"train_input", i - 1>>)
             w2 == generate_png(w1, name, exs[i].output, <<"train_output", i - 1>>)
             w3 == maybe_call_blip(w2, exs[i].input)
             w4 == maybe_call_blip(w3, exs[i].output)
         IN  TrainLoop(w4, name, exs, i + 1)

\* The loop over the test examples, from example j on.
RECURSIVE TestLoop(_, _, _, _)
TestLoop(w, name, exs, j) ==
    IF j > Len(exs) THEN w
    ELSE LET w1 == generate_png(w, name, exs[j].input, <<"test_input", j - 1>>)
             w2 == maybe_call_blip(w1, exs[j].input)
         IN  TestLoop(w2, name, exs, j + 1)

\* Images and descriptions of all examples of a puzzle.
process_puzzle_grids(w, name, f) ==
    TestLoop(TrainLoop(w, name, f.train, 1), name, f.test, 1)

\* llm_client.query_llm(prompt) answering with raw text t.
query_llm(w) ==
    IF w.exc # NoExc THEN w ELSE [w EXCEPT !.llmCalls = w.llmCalls + 1]

\* MERGE (t:Task {name: $task_name}) SET t.llm_text = ..., t.success = ...
MergeSetTask(ts, name, text, success) ==
    LET base == IF TasksNamed(ts, name) = {}
                THEN Append(ts, NewTask(name, Absent)) ELSE ts
    IN  [i \in 1..Len(base) |->
            IF base[i].name = name
            THEN [base[i] EXCEPT !.llm_text = Prop(text), !.success = Prop(success)]
            ELSE base[i]]

LogStmt1(w, name, text, success) ==
    DbRun(w, IsStr(text),
          [w EXCEPT !.tasks = MergeSetTask(w.tasks, name, text, success)])

\* Mutant: the Counterexample is merged on its llm_text, not on a fresh id.
AddCounterexample_by_text(cs, ts, name, text) ==
    IF TasksNamed(ts, name) = {} THEN cs
    ELSE IF \E i \in 1..Len(cs) : cs[i].llm_text = text
    THEN [i \in 1..Len(cs) |->
            IF cs[i].llm_text = text
            THEN [cs[i] EXCEPT !.of = @ \cup TasksNamed(ts, name)]
            ELSE cs[i]]
    ELSE Append(cs, [id |-> Len(cs) + 1, llm_text |-> text,
                     of |-> TasksNamed(ts, name)])

\* MATCH (t:Task {name}) MERGE (c:Counterexample {id: uuid4}) MERGE (t)-[..]->(c)
AddCounterexample(cs, ts, name, text) ==
    IF TasksNamed(ts, name) = {} THEN cs
    ELSE Append(cs, [id |-> Len(cs) + 1, llm_text |-> text,
                     of |-> TasksNamed(ts, name)])

LogStmt2(w, name, text) ==
    DbRun(w, IsStr(text),
          [w EXCEPT !.cex = AddCounterexample(w.cex, w.tasks, name, text)])

\* Bookkeeping of the log_llm_solution calls made with success false:
\* all of them, and those that returned normally.
CountCall(w, name, success) ==
    IF w.exc # NoExc \/ success THEN w
    ELSE [w EXCEPT !.failedLogs[name] = @ + 1]

CountReturn(w, name, success) ==
    IF w.exc # NoExc \/ success THEN w
    ELSE [w EXCEPT !.goodLogs[name] = @ + 1]

log_llm_solution(w, name, text, success) ==
    LET w0 == CountCall(w, name, success)
        w1 == LogStmt1(w0, name, text, success)
        w2 == IF success THEN w1 ELSE LogStmt2(w1, name, text)
    IN  CountReturn(w2, name, success)

\* Mutant: the stored history is never found.
check_knowledge_graph_none(ts, name) == <<>>

\* check_knowledge_graph: <<>> for None, else <<[llm_text, success]>>.
check_knowledge_graph(ts, name) ==
    IF MatchTask(ts, name) = 0 THEN <<>>
    ELSE IF ts[MatchTask(ts, name)].llm_text = Absent THEN <<>>
    ELSE <<[llm_text |-> ts[MatchTask(ts, name)].llm_text[1],
            success |-> ts[MatchTask(ts, name)].success]>>

CheckStmt(w, name) == DbRun(w, TRUE, w)

----------------------------------------------------------------------------
(* Results of the handlers *)

NoBody == [kind |-> "none", name |-> "", llm_text |-> "", success |-> FALSE,
           solution |-> <<>>, correct_solutions |-> <<>>,
           train |-> <<>>, test |-> <<>>]

ErrorBody(name) == [NoBody EXCEPT !.kind = "error", !.name = name]

Returned(status, body) ==
    [raised |-> FALSE, exc |-> NoExc, status |-> status, body |-> body]

Raised(e) == [raised |-> TRUE, exc |-> e, status |-> 0, body |-> NoBody]

\* A call's outcome: the world it leaves and what the caller gets.
Outcome(w, res) == [w |-> w, res |-> IF w.exc # NoExc THEN Raised(w.exc) ELSE res]

RECURSIVE Outputs(_, _)
Outputs(exs, i) ==
    IF i > Len(exs) THEN <<>> ELSE <<exs[i].output>> \o Outputs(exs, i + 1)

\* The response load_arc_task builds from the parsed file f: the name, the
\* train and test examples as they stand in the file, and the outputs of the
\* test examples when reveal_solution is set.
LoadResponse(name, f, reveal) ==
    [NoBody EXCEPT !.kind = "task", !.name = name,
        !.train = f.train, !.test = f.test,
        !.correct_solutions = IF reveal THEN Outputs(f.test, 1) ELSE <<>>]

\* load_arc_task(task_name, reveal_solution)
load_arc_task(w, name, reveal) ==
    LET f == FileOf(name)
    IN  IF ~f.exists THEN Outcome(w, Returned(404, ErrorBody(name)))
        ELSE IF LoadFails(f) THEN Outcome(w, Returned(500, ErrorBody(name)))
        ELSE LET w1 == init_puzzle_in_kg(w, name)
                 w2 == process_puzzle_grids(w1, name, f)
             IN  Outcome(w2, Returned(200, LoadResponse(name, f, reveal)))

\* Step 6 of the flow: the comparison of the parsed guess with the output
\* of the first test example; leaves the exception of parse_llm_guess or of
\* the lookup of self.compare_grids pending.
CompareStep(w, f, text) ==
    IF w.exc # NoExc \/ f.test = <<>> THEN w
    ELSE IF parse_llm_guess(text).exc # NoExc THEN Raise(w, parse_llm_guess(text).exc)
    ELSE IF AttrLookup("compare_grids") # NoExc
    THEN Raise(w, AttrLookup("compare_grids"))
    ELSE w

\* The success the flow logs and returns: False as initialised; the
\* assignment of True sits behind the call of self.compare_grids, which
\* CompareStep never gets past.
FlowSuccess == FALSE

\* The result the flow returns: the puzzle's examples, the LLM text and
\* the success flag.
FlowResponse(name, f, text, ok) ==
    [NoBody EXCEPT !.kind = "flow", !.name = name,
        !.train = f.train, !.test = f.test,
        !.llm_text = text, !.success = ok]

\* Steps 1 to 5 of the flow: the puzzle in the graph, the images and
\* descriptions, and the invocation of query_llm.
FlowToQuery(w, name, f) ==
    query_llm(process_puzzle_grids(init_puzzle_in_kg(w, name), name, f))

\* _process_full_puzzle_flow(puzzle_name), the LLM answering with text
process_full_puzzle_flow(w, name, text) ==
    LET f == FileOf(name)
    IN  IF ~f.exists THEN Outcome(w, Returned(404, ErrorBody(name)))
        ELSE IF LoadFails(f) THEN Outcome(w, Returned(500, ErrorBody(name)))
        ELSE LET w3 == FlowToQuery(w, name, f)
                 w4 == CompareStep(w3, f, text)
                 ok == FlowSuccess
                 w5 == log_llm_solution(w4, name, text, ok)
             IN  Outcome(w5, Returned(200, FlowResponse(name, f, text, ok)))

\* Mutant: the submitted solution is compared with the first test output.
attempt_solution_uses_solution(w, name, solution, text) ==
    LET w1 == CheckStmt(w, name)
        history == check_knowledge_graph(w1.tasks, name)
        right == Outputs(FileOf(name).test, 1) # <<>>
                 /\ solution = Outputs(FileOf(name).test, 1)[1]
    IN  IF w1.exc = NoExc /\ history # <<>> /\ history[1].success = Prop(TRUE)
        THEN Outcome(w1, Returned(200,
                [NoBody EXCEPT !.kind = "attempt", !.name = name, !.success = TRUE]))
        ELSE LET w2 == query_llm(w1)
                 w3 == log_llm_solution(w2, name, text, right)
             IN  Outcome(w3, Returned(200,
                    [NoBody EXCEPT !.kind = "attempt", !.name = name,
                        !.success = right]))

\* attempt_solution(loaded_data, user_solution), the LLM answering with text
attempt_solution(w, name, solution, text) ==
    LET w1 == CheckStmt(w, name)
        history == check_knowledge_graph(w1.tasks, name)
    IN  IF w1.exc = NoExc /\ history # <<>> /\ history[1].success = Prop(TRUE)
        THEN Outcome(w1, Returned(200,
                [NoBody EXCEPT !.kind = "attempt", !.name = name, !.success = TRUE]))
        ELSE LET w2 == query_llm(w1)
                 w3 == log_llm_solution(w2, name, text, FALSE)
             IN  Outcome(w3, Returned(200,
                    [NoBody EXCEPT !.kind = "attempt", !.name = name,
                        !.success = FALSE]))

\* POST /api/process-arc-task with {"task_name": name, "solution": solution}
process_arc_task(w, name, solution, text) ==
    LET loaded == load_arc_task(w, name, TRUE)
    IN  IF loaded.res.raised \/ loaded.res.status # 200 THEN loaded
        ELSE attempt_solution(loaded.w, name, solution, text)


----------------------------------------------------------------------------
(* GraphRAG: the ontology rules *)

RuleIds == {"legal_rule_001", "healthcare_rule_001"}
CnlRules == {"A contract is binding.", "A vaccine is preventive."}
PrologRules == {"contract(X, Y).", "vaccine(X)."}

\* Config.ONTOLOGY_DOMAINS
ONTOLOGY_DOMAINS ==
    {"legal", "healthcare", "education", "ai_ethics", "finance", "warfare", "general"}

\* Domains the callers pass: two of the configured ones and one that is not.
Domains == {"legal", "general", "astrology"}

RulesWithId(rs, id) == {i \in 1..Len(rs) : rs[i].id = id}

\* Mutant: the statement is a CREATE, not a MERGE on id.
CreateRule(rs, id, cnl, prolog, domain) ==
    Append(rs, [id |-> id, cnl_rule |-> cnl, prolog_rule |-> prolog,
                domain |-> domain])

\* MERGE (r:OntologyRule {id: $rule_id})
\* SET r.cnl_rule = ..., r.prolog_rule = ..., r.domain = ...
MergeSetRule(rs, id, cnl, prolog, domain) ==
    LET base == IF RulesWithId(rs, id) = {}
                THEN Append(rs, [id |-> id, cnl_rule |-> "", prolog_rule |-> "",
                                 domain |-> ""])
                ELSE rs
    IN  [i \in 1..Len(base) |->
            IF base[i].id = id
            THEN [base[i] EXCEPT !.cnl_rule = cnl, !.prolog_rule = prolog,
                                 !.domain = domain]
            ELSE base[i]]

\* Mutant: a domain outside Config.ONTOLOGY_DOMAINS is filed under "general".
store_ontology_validated(rs, id, cnl, prolog, domain, dbOk) ==
    IF dbOk
    THEN MergeSetRule(rs, id, cnl, prolog,
                      IF domain \in ONTOLOGY_DOMAINS THEN domain ELSE "general")
    ELSE rs

\* store_ontology: the statement runs, or its exception is logged and dropped.
store_ontology(rs, id, cnl, prolog, domain, dbOk) ==
    IF dbOk THEN MergeSetRule(rs, id, cnl, prolog, domain) ELSE rs

store_domain_ontology(rs, id, cnl, prolog, domain, dbOk) ==
    store_ontology(rs, id, cnl, prolog, domain, dbOk)

RECURSIVE RuleRows(_, _, _)
RuleRows(rs, domain, i) ==
    IF i > Len(rs) THEN <<>>
    ELSE (IF rs[i].domain = domain
          THEN <<[id |-> rs[i].id, cnl_rule |-> rs[i].cnl_rule,
                  prolog_rule |-> rs[i].prolog_rule]>>
          ELSE <<>>) \o RuleRows(rs, domain, i + 1)

\* retrieve_ontology: the rows of the domain, or [] when the query raised.
retrieve_ontology(rs, domain, dbOk) ==
    IF dbOk THEN RuleRows(rs, domain, 1) ELSE <<>>

retrieve_domain_ontology(rs, domain, dbOk) == retrieve_ontology(rs, domain, dbOk)

----------------------------------------------------------------------------
(* LLMClient: the HTTP requests of one query_llm call.  Lines 42 and 93 of  *)
(* llm_client.py are read without their stray closing brace.                *)

\* What an endpoint does with one POST: requests.post raises a
\* RequestException (connection error, timeout), or answers with a status
\* and a body.  json is "object" for a JSON object, "other" for any other
\* JSON value and "none" for a body that is not JSON; value is the field of
\* the object the client reads ("response" or "valid"), absent or set.
Reply(fail, status, json, value) ==
    [fail |-> fail, status |-> status, json |-> json, value |-> value]

NoReply == Reply(TRUE, 0, "none", Absent)

QueryReplies ==
    {NoReply, Reply(FALSE, 500, "none", Absent), Reply(FALSE, 200, "none", Absent),
     Reply(FALSE, 200, "other", Absent), Reply(FALSE, 200, "object", Absent),
     Reply(FALSE, 200, "object", Prop("no idea")),
     Reply(FALSE, 200, "object", Prop("[[2]]"))}

ValidateReplies ==
    {NoReply, Reply(FALSE, 500, "none", Absent), Reply(FALSE, 200, "none", Absent),
     Reply(FALSE, 200, "other", Absent), Reply(FALSE, 200, "object", Absent),
     Reply(FALSE, 200, "object", Prop(TRUE)),
     Reply(FALSE, 200, "object", Prop(FALSE))}

\* The class of the exception Response.json() raises on a body that is not
\* JSON: a RequestException subclass in requests 2.27 and later, a plain
\* ValueError before; the repository pins no version.
JsonErrors == {"RequestException", "ValueError"}

\* The query reply is read as far as the validation request.
Validated(q) == ~q.fail /\ q.status = 200 /\ q.json = "object"

\* The environments of one query_llm call: the replies of the two endpoints
\* and the class of the JSON error, each varied only where the call meets it.
Https ==
    {h \in [query : QueryReplies, validate : ValidateReplies, jsonError : JsonErrors] :
        /\ (~Validated(h.query) => h.validate = NoReply)
        /\ (h.jsonError = "ValueError" =>
                \/ (~h.query.fail /\ h.query.status = 200 /\ h.query.json = "none")
                \/ (/\ Validated(h.query) /\ ~h.validate.fail
                    /\ h.validate.status = 200 /\ h.validate.json = "none"))}

\* What query_llm gives its caller: the exception it lets through, or a dict
\* of which the model keeps the keys "error" and "response", and the POSTs it
\* made, in order.
LlmRaised(e, ps) == [exc |-> e, error |-> Absent, response |-> Absent, posts |-> ps]

ErrorDict(msg, resp, ps) ==
    [exc |-> NoExc, error |-> Prop(msg), response |-> resp, posts |-> ps]

\* The LLM's own response dict, as parsed from the query reply q.
ResponseDict(q, ps) ==
    [exc |-> NoExc, error |-> Absent, response |-> q.value, posts |-> ps]

\* Response.json()
JsonOf(r, h) == IF r.json = "none" THEN h.jsonError ELSE NoExc


\* _validate_causal_explanation(prompt, response), response parsed from the
\* query reply q; only RequestException is caught.
validate_causal_explanation(h, q) ==
    LET v == h.validate
        ps == <<"query", "validate">>
    IN  IF q.json # "object" THEN LlmRaised("AttributeError", <<"query">>)
        ELSE IF v.fail THEN ErrorDict("Validation request failed", Absent, ps)
        ELSE IF v.status # 200 THEN ErrorDict("Validation failed", Prop(DictText), ps)
        ELSE IF JsonOf(v, h) = "RequestException"
        THEN ErrorDict("Validation request failed", Absent, ps)
        ELSE IF JsonOf(v, h) # NoExc THEN LlmRaised(JsonOf(v, h), ps)
        ELSE IF v.json # "object" THEN LlmRaised("AttributeError", ps)
        ELSE IF v.value # Prop(TRUE)
        THEN ErrorDict("Response lacks causal reasoning", Prop(DictText), ps)
        ELSE ResponseDict(q, ps)

\* Mutant: a query that is not answered with 200 is posted a second time.
LLMClient_query_llm_retry(h) ==
    LET q == h.query
    IN  IF q.fail THEN ErrorDict("Request failed", Absent, <<"query", "query">>)
        ELSE IF q.status # 200
        THEN ErrorDict("API request failed", Absent, <<"query", "query">>)
        ELSE IF JsonOf(q, h) = "RequestException"
        THEN ErrorDict("Request failed", Absent, <<"query">>)
        ELSE IF JsonOf(q, h) # NoExc THEN LlmRaised(JsonOf(q, h), <<"query">>)
        ELSE validate_causal_explanation(h, q)

\* LLMClient.query_llm(prompt) in the environment h; only RequestException
\* is caught.
LLMClient_query_llm(h) ==
    LET q == h.query
    IN  IF q.fail THEN ErrorDict("Request failed", Absent, <<"query">>)
        ELSE IF q.status # 200 THEN ErrorDict("API request failed", Absent, <<"query">>)
        ELSE IF JsonOf(q, h) = "RequestException"
        THEN ErrorDict("Request failed", Absent, <<"query">>)
        ELSE IF JsonOf(q, h) # NoExc THEN LlmRaised(JsonOf(q, h), <<"query">>)
        ELSE validate_causal_explanation(h, q)

\* llm_response.get("response", "")
RawText(r) == IF r.response = Absent THEN "" ELSE r.response[1]

\* _process_full_puzzle_flow(puzzle_name) with the LLM endpoints answering
\* as h: an exception of query_llm leaves the flow at step 5.
flow_with_llm(w, name, h) ==
    LET f == FileOf(name)
        r == LLMClient_query_llm(h)
        w3 == FlowToQuery(w, name, f)
    IN  IF f.exists /\ ~LoadFails(f) /\ w3.exc = NoExc /\ r.exc # NoExc
        THEN Outcome(Raise(w3, r.exc), Raised(r.exc))
        ELSE process_full_puzzle_flow(w, name, RawText(r))

\* attempt_solution(loaded_data) with the LLM endpoints answering as h.
attempt_with_llm(w, name, h) ==
    LET r == LLMClient_query_llm(h)
        early == attempt_solution(w, name, <<>>, "")
        w1 == CheckStmt(w, name)
    IN  IF early.w.llmCalls > w.llmCalls /\ r.exc # NoExc
        THEN Outcome(Raise(query_llm(w1), r.exc), Raised(r.exc))
        ELSE attempt_solution(w, name, <<>>, RawText(r))

----------------------------------------------------------------------------
(* UserFeedback: Session and Feedback nodes and their relationships.  kg is *)
(* a record of the Session nodes (their ids), the Feedback nodes, and the   *)
(* HAS_FEEDBACK and RECEIVED_FEEDBACK relationships as pairs of positions.  *)

TaskIds == {"t1", "t2"}
SessionIds == {"s1", "s2"}
Ratings == {1, 4}

\* A Task node of a revision that identifies Tasks by id.
IdTask(id) == [NewTask("", Absent) EXCEPT !.id = Prop(id)]

TasksWithId(ts, id) == {i \in 1..Len(ts) : ts[i].id = Prop(id)}

EmptyKg == [sessions |-> <<>>, feedbacks |-> <<>>, has |-> {}, received |-> {}]

SessionsWithId(g, sid) == {i \in 1..Len(g.sessions) : g.sessions[i] = sid}

\* Mutant: the Session is created, not merged.
CreateSession(g, sid) == [g EXCEPT !.sessions = Append(@, sid)]

\* MERGE (s:Session {id: $session_id})
MergeSession(g, sid) ==
    IF SessionsWithId(g, sid) = {}
    THEN [g EXCEPT !.sessions = Append(@, sid)]
    ELSE g

\* For one row (t, s):  CREATE (f:Feedback {...})
\* MERGE (s)-[:HAS_FEEDBACK]->(f)  MERGE (t)-[:RECEIVED_FEEDBACK]->(f)
LinkFeedback(g, t, s, node) ==
    [g EXCEPT !.feedbacks = Append(@, node),
              !.has = @ \cup {<<s, Len(g.feedbacks) + 1>>},
              !.received = @ \cup {<<t, Len(g.feedbacks) + 1>>}]

\* The rows of Task t: one per Session node the MERGE binds.
RECURSIVE SessionRows(_, _, _, _)
SessionRows(g, t, ss, node) ==
    IF ss = {} THEN g
    ELSE SessionRows(LinkFeedback(g, t, Min(ss), node), t, ss \ {Min(ss)}, node)

\* The statement of submit_feedback over the rows of its MATCH: no row, no
\* effect.
RECURSIVE TaskRows(_, _, _, _)
TaskRows(g, ts, sid, node) ==
    IF ts = {} THEN g
    ELSE LET g1 == MergeSession(g, sid)
         IN  TaskRows(SessionRows(g1, Min(ts), SessionsWithId(g1, sid), node),
                      ts \ {Min(ts)}, sid, node)

FeedbackNode(feedback, rating, correction) ==
    [feedback |-> feedback, rating |-> rating, correction |-> correction]

\* submit_feedback: the statement runs, or its exception is logged and False
\* returned.
submit_feedback(ts, g, sid, tid, node, dbOk) ==
    IF dbOk
    THEN [kg |-> TaskRows(g, TasksWithId(ts, tid), sid, node), result |-> TRUE]
    ELSE [kg |-> g, result |-> FALSE]

\* MATCH (t:Task {id: $task_id})-[:RECEIVED_FEEDBACK]->(f:Feedback): the
\* Feedback positions of the rows, in order.
RECURSIVE FeedbackRows(_, _, _, _)
FeedbackRows(ts, g, tid, f) ==
    IF f > Len(g.feedbacks) THEN <<>>
    ELSE [i \in 1..Cardinality({t \in TasksWithId(ts, tid) : <<t, f>> \in g.received})
            |-> f] \o FeedbackRows(ts, g, tid, f + 1)

\* get_feedback: the rows' feedback, rating and correction, or [] when the
\* query raised.
get_feedback(ts, g, tid, dbOk) ==
    IF dbOk
    THEN [i \in 1..Len(FeedbackRows(ts, g, tid, 1)) |->
            g.feedbacks[FeedbackRows(ts, g, tid, 1)[i]]]
    ELSE <<>>

RECURSIVE SumRatings(_, _, _)
SumRatings(g, rows, i) ==
    IF i > Len(rows) THEN 0
    ELSE g.feedbacks[rows[i]].rating + SumRatings(g, rows, i + 1)

\* A trust score as the fraction <<numerator, denominator>>:
\* avg(f.rating) / 5.0
TrustScore(g, rows) == <<SumRatings(g, rows, 1), 5 * Len(rows)>>

SetScore(ts, tid, score) ==
    [i \in 1..Len(ts) |->
        IF ts[i].id = Prop(tid) THEN [ts[i] EXCEPT !.ai_trust_score = Prop(score)]
        ELSE ts[i]]

\* update_ai_trust_score: the average is read by one statement and written by
\* a second one, unless there is no rating; budget is the number of
\* statements the database runs before it fails, the exception being logged.
update_ai_trust_score(ts, g, tid, budget) ==
    IF budget < 2 \/ FeedbackRows(ts, g, tid, 1) = <<>> THEN ts
    ELSE SetScore(ts, tid, TrustScore(g, FeedbackRows(ts, g, tid, 1)))

\* record["trust_score"] < 0.7
Below07(score) == 10 * score[1] < 7 * score[2]

RECURSIVE AuditRows(_, _)
AuditRows(ts, i) ==
    IF i > Len(ts) THEN <<>>
    ELSE (IF Below07(ts[i].ai_trust_score[1])
          THEN <<[task_id |-> ts[i].id, trust_score |-> ts[i].ai_trust_score[1]]>>
          ELSE <<>>) \o AuditRows(ts, i + 1)

\* {"error": "Failed to audit AI trust scores"}
AuditError == [error |-> TRUE, audit_results |-> <<>>]

\* ControlAgent.audit_ai_trust: the query raising, or the comparison of a
\* null trust_score with 0.7 raising TypeError, ends in the except branch.
audit_ai_trust(ts, dbOk) ==
    IF ~dbOk THEN AuditError
    ELSE IF \E i \in 1..Len(ts) : ts[i].ai_trust_score = Absent THEN AuditError
    ELSE [error |-> FALSE, audit_results |-> AuditRows(ts, 1)]

\* The graphs the feedback calls start from: Tasks of the revisions that
\* identify them by id (unique, as a MERGE on id leaves them), and a Task
\* created by TaskManager, which has a name and no id.
FbGraphs ==
    {<<>>, <<IdTask("t1")>>, <<IdTask("t1"), IdTask("t2")>>,
     <<NewTask("puzzle", Prop("arc")), IdTask("t1")>>}

NoFb == [op |-> "none", sid |-> "", tid |-> "", node |-> FeedbackNode("", 0, Absent),
         ok |-> FALSE, result |-> FALSE, before |-> 0, rows |-> <<>>,
         audit |-> AuditError]

----------------------------------------------------------------------------
(* PrologRuleGenerator: the Prolog knowledge base is the sequence of its    *)
(* clauses, as text; the engine's answers to queries are the environment.   *)

\* The rules validated: a fact with a variable, a ground fact, and a text
\* that is no Prolog term.
PlRules == {"p(X)", "p(a)", "p("}

\* Prolog cannot parse the text.
Malformed(c) == c = "p("

\* Clause d of the knowledge base unifies with the term c.
Unifies(c, d) == c = d \/ {c, d} = {"p(X)", "p(a)"}

PlOk(k) == [exc |-> FALSE, kb |-> k]
PlError(k) == [exc |-> TRUE, kb |-> k]

\* Prolog.assertz(c): the clause is appended, or the text raises.
assertz(k, c) == IF Malformed(c) THEN PlError(k) ELSE PlOk(Append(k, c))

RemoveAt(k, i) == [j \in 1..(Len(k) - 1) |-> IF j < i THEN k[j] ELSE k[j + 1]]

\* Prolog.retract(c): next() of the query retract((c)), which removes the
\* first clause that unifies with c and raises when there is none or the
\* text does not parse.
retract(k, c) ==
    IF Malformed(c) \/ {i \in 1..Len(k) : Unifies(c, k[i])} = {} THEN PlError(k)
    ELSE PlOk(RemoveAt(k, Min({i \in 1..Len(k) : Unifies(c, k[i])})))

\* rule.replace(":-", ":- not(") + ")."
NegatedRule(rule) == rule \o ")."

\* What the engine answers to the query of a test case ("right": a first
\* result equal to the expected output), to the contradiction query and to
\* the counterfactual query.
TestAnswers == {"right", "wrong", "error"}
QueryAnswers == {"none", "some", "error"}

\* The environments of one validation: the answers to the two queries and
\* whether the engine accepts the negated rule; the counterfactual answer
\* varies only where the query is put.
PlEnvs ==
    {e \in [contra : QueryAnswers, negOk : BOOLEAN, cf : QueryAnswers] :
        ~e.negOk => e.cf = "error"}

\* detect_logical_contradictions: any solution, or an error, is a
\* contradiction.
detect_logical_contradictions(e) == e.contra # "none"

\* test_counterfactuals: every exception ends in "return False", the negated
\* rule retracted only on the paths that reach a retract.
test_counterfactuals(k, rule, e) ==
    LET a == assertz(k, NegatedRule(rule))
        r == retract(a.kb, NegatedRule(rule))
    IN  IF ~e.negOk \/ a.exc THEN [kb |-> k, ok |-> FALSE]
        ELSE IF e.cf = "error" THEN [kb |-> a.kb, ok |-> FALSE]
        ELSE IF r.exc THEN [kb |-> a.kb, ok |-> FALSE]
        ELSE [kb |-> r.kb, ok |-> e.cf = "none"]

PlReturn(k, v) == [kb |-> k, raised |-> FALSE, value |-> v]
PlRaise(k) == [kb |-> k, raised |-> TRUE, value |-> FALSE]

\* The outer except branch: the rule is retracted and False returned; an
\* exception of that retract leaves the function.
ExceptBranch(k, rule) ==
    IF retract(k, rule).exc THEN PlRaise(k) ELSE PlReturn(retract(k, rule).kb, FALSE)

\* self.prolog.retract(rule); return False -- inside the try.
RetractAndFail(k, rule) ==
    IF retract(k, rule).exc THEN ExceptBranch(k, rule)
    ELSE PlReturn(retract(k, rule).kb, FALSE)

\* Lines 89 to 103: the contradiction check, the counterfactual test and the
\* final retract.
AfterTests(k, rule, e) ==
    LET cf == test_counterfactuals(k, rule, e)
    IN  IF detect_logical_contradictions(e) THEN RetractAndFail(k, rule)
        ELSE IF ~cf.ok THEN RetractAndFail(cf.kb, rule)
        ELSE IF retract(cf.kb, rule).exc THEN ExceptBranch(cf.kb, rule)
        ELSE PlReturn(retract(cf.kb, rule).kb, TRUE)

\* The loop over the test cases, tests[i] being the engine's answer to the
\* query of case i.
RECURSIVE TestCases(_, _, _, _, _)
TestCases(k, rule, tests, i, e) ==
    IF i > Len(tests) THEN AfterTests(k, rule, e)
    ELSE IF tests[i] = "right" THEN TestCases(k, rule, tests, i + 1, e)
    ELSE RetractAndFail(k, rule)

\* validate_rule_against_test_cases(rule, test_cases)
validate_rule_against_test_cases(k, rule, tests, e) ==
    IF assertz(k, rule).exc THEN ExceptBranch(k, rule)
    ELSE TestCases(assertz(k, rule).kb, rule, tests, 1, e)

\* The knowledge bases __init__ consults from prolog_files.
PlKbs == {<<"p(a)">>, <<"q(a)">>}

NoPl == [op |-> "none", rule |-> "", tests |-> <<>>,
         env |-> [contra |-> "error", negOk |-> FALSE, cf |-> "error"],
         before |-> <<>>, raised |-> FALSE, value |-> FALSE]

----------------------------------------------------------------------------
(* The state machine: one handler call per step (Spec) *)

Solutions == {<<>>, G2}

\* The names of the puzzles load_arc_task loads.
LoadedNames == {n \in Names : FileOf(n).exists /\ ~LoadFails(FileOf(n))}

\* LLM answers of the calls of the state machine.
FlowTexts == {"", "[[2]]", "no idea", DictText}
LogTexts == {"no idea", DictText}

\* Budgets of a call that runs at most k statements: failure at one of
\* them, or none.
Budgets(k) == (0..(k - 1)) \cup {MaxStmts}

\* Environments <<budget, pngFail>> of a call that runs at most k statements:
\* one fault or none (the first fault ends the call, so a second one is never
\* met).  A call on a file that is read no further meets no fault at all.
EnvOf(name, k) ==
    IF name \in LoadedNames
    THEN {<<b, FALSE>> : b \in Budgets(k)} \cup {<<MaxStmts, TRUE>>}
    ELSE {<<MaxStmts, FALSE>>}

\* Two clients of the threaded server; each sends one request in SpecConc.
Callers == {1, 2}

Idle == [at |-> "idle", op |-> "none", name |-> "", text |-> "", budget |-> 0,
         pngFail |-> FALSE, found |-> 0, created |-> FALSE, res |-> Raised(NoExc)]

NoCall == [op |-> "none", name |-> "", flag |-> FALSE, solution |-> <<>>,
           text |-> "", budget |-> 0, pngFail |-> FALSE, res |-> Raised(NoExc)]

NoLlm == [op |-> "none", name |-> "", h |-> [query |-> NoReply,
            validate |-> NoReply, jsonError |-> "RequestException"],
          invoked |-> 0, posts |-> <<>>, result |-> LlmRaised(NoExc, <<>>),
          res |-> Raised(NoExc)]

\* The components outside TaskManager and GraphRAG before their first call.
(***************************************************************************)
(* kg_data_export.py: GET /export                                          *)
(***************************************************************************)

Formats == {"csv", "json", "graphml", "neo4j"}
AskedFormats == Formats \cup {"xml"}
ExDomains == {"general", "arc"}

Extension(fmt) == IF fmt = "neo4j" THEN "cypher" ELSE fmt

\* os.path.join(self.export_dir, f"{domain}_ontology.<ext>")
FilePath(domain, fmt) == domain \o "_ontology." \o Extension(fmt)

\* What the request meets outside the program: whether exports/ can be
\* created, what fetch_ontology_data's query gives (an exception, no rows,
\* rows), and how writing the file goes (written, the open fails, the file is
\* created and a write fails).
ExEnvs ==
    [dirOk : BOOLEAN, fetch : {"error", "empty", "rows"},
     write : {"ok", "fails", "partial"}]

ExResult(files, open, raised, status) ==
    [files |-> files, open |-> open, raised |-> raised, status |-> status]

\* fetch_ontology_data: any exception is logged and [] returned.
fetch_ontology_data(e) == e.fetch = "rows"

\* export_to_csv, export_to_json, export_to_graphml, export_to_neo4j_dump:
\* None without data, else the file is written and its path returned.
export_to(files, domain, fmt, e) ==
    IF ~fetch_ontology_data(e)
    THEN [files |-> files, raised |-> FALSE, path |-> Absent]
    ELSE CASE e.write = "ok" ->
                [files |-> files \cup {FilePath(domain, fmt)}, raised |-> FALSE,
                 path |-> Prop(FilePath(domain, fmt))]
           [] e.write = "partial" ->
                [files |-> files \cup {FilePath(domain, fmt)}, raised |-> TRUE,
                 path |-> Absent]
           [] OTHER ->
                [files |-> files, raised |-> TRUE, path |-> Absent]

\* export_data: the driver is created, exports/ made, the format's export
\* run, the manager closed, and the file sent or 400 returned.  An exception
\* leaves the handler where it is raised (status 500).
export_data(files, open, domain, fmt, e) ==
    IF ~e.dirOk
    THEN ExResult(files, open + 1, TRUE, 500)
    ELSE LET x == IF fmt \in Formats
                  THEN export_to(files, domain, fmt, e)
                  ELSE [files |-> files, raised |-> FALSE, path |-> Absent]
         IN  IF x.raised
             THEN ExResult(x.files, open + 1, TRUE, 500)
             ELSE ExResult(x.files, open, FALSE,
                           IF x.path # Absent THEN 200 ELSE 400)

NoEx == [op |-> "none", domain |-> "", format |-> "", env |-> <<>>,
         filesBefore |-> {}, openBefore |-> 0, raised |-> FALSE, status |-> 0]

\* parse_llm_guess not yet applied to the drawn response.
NoGuess == [text |-> "", done |-> FALSE, out |-> <<>>]

InitExt ==
    /\ llm = NoLlm
    /\ kg = EmptyKg
    /\ fb = NoFb
    /\ fbMatched = 0
    /\ submits = 0
    /\ kb = <<>>
    /\ pl = NoPl
    /\ plCalls = 0
    /\ exFiles = {}
    /\ exOpen = 0
    /\ ex = NoEx
    /\ exCalls = 0

\* Everything but the Task nodes.
InitRest ==
    /\ InitExt
    /\ cex = <<>>
    /\ rules = <<>>
    /\ pngs = {}
    /\ llmCalls = 0
    /\ blipCalls = 0
    /\ blipConfigured \in BOOLEAN
    /\ calls = 0
    /\ failedLogs = [n \in Names |-> 0]
    /\ goodLogs = [n \in Names |-> 0]
    /\ lastTried = [r \in RuleIds |-> <<>>]
    /\ lastStore = [r \in RuleIds |-> <<>>]
    /\ last = NoCall
    /\ pc = [c \in Callers |-> Idle]

Init ==
    /\ tasks = <<>>
    /\ guess = NoGuess
    /\ InitRest

\* The call leaves world out.w and hands out.res to its caller.
Finish(op, name, flag, solution, text, w, out) ==
    /\ tasks' = out.w.tasks
    /\ cex' = out.w.cex
    /\ pngs' = out.w.pngs
    /\ llmCalls' = out.w.llmCalls
    /\ blipCalls' = out.w.blipCalls
    /\ failedLogs' = out.w.failedLogs
    /\ goodLogs' = out.w.goodLogs
    /\ calls' = calls + 1
    /\ last' = [op |-> op, name |-> name, flag |-> flag, solution |-> solution,
                text |-> text, budget |-> w.budget, pngFail |-> w.pngFail,
                res |-> out.res]
    /\ UNCHANGED <<rules, lastTried, lastStore, blipConfigured, pc>>
    /\ UNCHANGED extVars

LoadArcTask ==
    /\ calls < MaxCalls
    /\ \E name \in Names, reveal \in BOOLEAN :
       \E e \in EnvOf(name, 2) :
          Finish("load_arc_task", name, reveal, <<>>, "", World(e[1], e[2]),
                 load_arc_task(World(e[1], e[2]), name, reveal))

\* get_random_task: random.choice over the stems of the files present.
GetRandomTask ==
    /\ calls < MaxCalls
    /\ \E name \in {n \in Names : FileOf(n).exists}, text \in FlowTexts :
       \E e \in EnvOf(name, 4) :
          Finish("flow", name, FALSE, <<>>, text, World(e[1], e[2]),
                 process_full_puzzle_flow(World(e[1], e[2]), name, text))

\* _process_full_puzzle_flow called with the name of no file.
ProcessFullPuzzleFlow ==
    /\ calls < MaxCalls
    /\ \E name \in {n \in Names : ~FileOf(n).exists}, text \in FlowTexts :
       \E e \in EnvOf(name, 4) :
          Finish("flow", name, FALSE, <<>>, text, World(e[1], e[2]),
                 process_full_puzzle_flow(World(e[1], e[2]), name, text))

AttemptSolution ==
    /\ calls < MaxCalls
    /\ \E name \in LoadedNames, sol \in Solutions, text \in LogTexts, b \in Budgets(3) :
          Finish("attempt_solution", name, FALSE, sol, text, World(b, FALSE),
                 attempt_solution(World(b, FALSE), name, sol, text))

ProcessArcTask ==
    /\ calls < MaxCalls
    /\ \E name \in Names, sol \in Solutions, text \in LogTexts :
       \E e \in EnvOf(name, 5) :
          Finish("process_arc_task", name, TRUE, sol, text, World(e[1], e[2]),
                 process_arc_task(World(e[1], e[2]), name, sol, text))

LogLlmSolution ==
    /\ calls < MaxCalls
    /\ \E name \in LoadedNames, text \in LogTexts, success \in BOOLEAN, b \in Budgets(2) :
          Finish("log_llm_solution", name, success, <<>>, text, World(b, FALSE),
                 Outcome(log_llm_solution(World(b, FALSE), name, text, success),
                         Returned(0, NoBody)))

Next ==
    \/ LoadArcTask
    \/ GetRandomTask
    \/ ProcessFullPuzzleFlow
    \/ AttemptSolution
    \/ ProcessArcTask
    \/ LogLlmSolution

Spec == Init /\ [][Next]_vars

----------------------------------------------------------------------------
(* Claims about the TaskManager handlers, checked under Spec *)

\* The step just taken completed a call of handler op.
Completed(op) == calls' = calls + 1 /\ last'.op = op

\* Number of Counterexample nodes linked to the Task nodes named name.
LinkedCounterexamples(name) ==
    Cardinality({i \in 1..Len(cex) : cex[i].of \cap TasksNamed(tasks, name) # {}})

\* Some Task node named name records success = true with an llm_text.
RecordedSuccess(ts, name) ==
    \E i \in TasksNamed(ts, name) :
        ts[i].llm_text # Absent /\ ts[i].success = Prop(TRUE)

\* C1 (as claimed): a call of _process_full_puzzle_flow always hands a
\* (response, status) pair to its caller; whichever step fails, no
\* exception leaves the flow.
C1_FlowNeverRaises ==
    last.op = "flow" => ~last.res.raised

\* C3: when the handlers run one after the other, the graph holds at most
\* one Task node per puzzle name.
C3_OneTaskPerName ==
    \A n \in Names : Cardinality(TasksNamed(tasks, n)) <= 1

\* C3 witness: a second call has loaded a puzzle whose Task an earlier call
\* had written, and returned 200.
C3_Witness ==
    /\ calls = 2
    /\ last.op = "load_arc_task"
    /\ ~last.res.raised /\ last.res.status = 200
    /\ \E i \in TasksNamed(tasks, last.name) : tasks[i].llm_text # Absent

\* C6: when the graph holds the Task with an llm_text and success true and
\* the lookup runs, attempt_solution returns ([], True), queries no LLM and
\* leaves the graph as it was.
C6_StoredSolutionReturned ==
    [][(/\ Completed("attempt_solution")
        /\ last'.budget > 0
        /\ RecordedSuccess(tasks, last'.name))
       => (/\ ~last'.res.raised
           /\ last'.res.body.solution = <<>>
           /\ last'.res.body.success = TRUE
           /\ llmCalls' = llmCalls
           /\ tasks' = tasks
           /\ cex' = cex)]_vars

\* C6 witness: attempt_solution has returned ([], True).
C6_Witness ==
    /\ last.op = "attempt_solution"
    /\ ~last.res.raised
    /\ last.res.body.success = TRUE
    /\ RecordedSuccess(tasks, last.name)

\* C7: the outcome of POST /api/process-arc-task is the same for every
\* submitted solution (same graph, same environment, same LLM answer), and
\* its success is true only if the graph recorded the task as successful
\* before the request.
C7_SolutionIgnored ==
    [][Completed("process_arc_task")
       => (/\ \A s2 \in Solutions :
                LET o == process_arc_task(World(last'.budget, last'.pngFail),
                                          last'.name, s2, last'.text)
                IN  /\ o.res = last'.res
                    /\ o.w.tasks = tasks'
                    /\ o.w.cex = cex'
                    /\ o.w.pngs = pngs'
           /\ (~last'.res.raised /\ last'.res.body.success)
                => RecordedSuccess(tasks, last'.name))]_vars

\* C7 witness: a request with a non-empty solution was answered with
\* success false and its failure logged.
C7_Witness ==
    /\ last.op = "process_arc_task"
    /\ last.solution # <<>>
    /\ ~last.res.raised /\ last.res.status = 200
    /\ ~last.res.body.success
    /\ LinkedCounterexamples(last.name) > 0

\* Some fault of the environment met the call: a statement the database
\* did not run, a PNG that could not be saved, a configured BLIP.
EnvFault == last.budget < MaxStmts \/ last.pngFail \/ blipConfigured

\* C8 (as claimed): a flow that met no fault and whose LLM text parsed to
\* a grid returns success true exactly if the puzzle has a test example
\* and the parsed grid equals the output grid of the first one.
C8_SuccessIffGuessEqual ==
    (/\ last.op = "flow"
     /\ last.name \in LoadedNames
     /\ ~EnvFault
     /\ parse_llm_guess(last.text).exc = NoExc
     /\ parse_llm_guess(last.text).kind = "list")
    => (/\ ~last.res.raised
        /\ last.res.body.success =
             (/\ FileOf(last.name).test # <<>>
              /\ parse_llm_guess(last.text).grid = FileOf(last.name).test[1].output))

BadFile(name) ==
    ~FileOf(name).exists \/ ~FileOf(name).json \/ ~FileOf(name).keys

\* C10: on a missing file load_arc_task and the flow answer 404, on a file
\* that is no JSON or lacks "train"/"test" they answer 500, and both leave
\* Task nodes, images and the LLM and BLIP call counts as they were.
C10_ErrorLeavesStateUnchanged ==
    [][((Completed("load_arc_task") \/ Completed("flow")) /\ BadFile(last'.name))
       => (/\ ~last'.res.raised
           /\ last'.res.body.kind = "error"
           /\ last'.res.status = IF FileOf(last'.name).exists THEN 500 ELSE 404
           /\ tasks' = tasks
           /\ cex' = cex
           /\ pngs' = pngs
           /\ llmCalls' = llmCalls
           /\ blipCalls' = blipCalls)]_vars

\* C10 witness: with a Task in the graph, a load of a file without the
\* keys was answered 500.
C10_Witness ==
    /\ last.op = "load_arc_task"
    /\ last.name = "nokeys"
    /\ last.res.status = 500
    /\ tasks # <<>>

\* A puzzle file that differs from f only in the "output" of its test
\* examples.
OtherOutputs(f) ==
    [f EXCEPT !.test = [i \in 1..Len(f.test) |->
                            [f.test[i] EXCEPT !.output = EmptyGrid]]]

\* C11: a load_arc_task call with reveal_solution false discloses no test
\* output: the response it returns is the one it returns for the puzzle that
\* differs only in the outputs of its test examples.
C11_OutputsNotDisclosed ==
    (/\ last.op = "load_arc_task" /\ ~last.flag
     /\ ~last.res.raised /\ last.res.status = 200)
    => last.res.body = LoadResponse(last.name, OtherOutputs(FileOf(last.name)), FALSE)

----------------------------------------------------------------------------
(* The state machine of the ontology store: one GraphRAG call per step.    *)
(* Each call runs a single statement, so calls of concurrent clients       *)
(* interleave as whole calls.                                              *)

StoreArgs(cnl, prolog, domain, n) ==
    [cnl_rule |-> cnl, prolog_rule |-> prolog, domain |-> domain, n |-> n]

Stores(h) == IF h = <<>> THEN 0 ELSE h[1].n

Store(op, id, cnl, prolog, domain, dbOk, rs) ==
    /\ calls < MaxOntCalls
    /\ calls' = calls + 1
    /\ rules' = rs
    /\ lastTried' = [lastTried EXCEPT ![id] = <<StoreArgs(cnl, prolog, domain, 0)>>]
    /\ lastStore' = IF dbOk
                    THEN [lastStore EXCEPT ![id] =
                            <<StoreArgs(cnl, prolog, domain, Stores(@) + 1)>>]
                    ELSE lastStore
    /\ last' = [op |-> op, id |-> id, domain |-> domain, ok |-> dbOk, rows |-> <<>>]
    /\ UNCHANGED <<tasks, cex, pngs, llmCalls, blipCalls, blipConfigured,
                   failedLogs, goodLogs, pc>>
    /\ UNCHANGED extVars

StoreOntology ==
    \E id \in RuleIds, cnl \in CnlRules, prolog \in PrologRules,
       domain \in Domains, dbOk \in BOOLEAN :
        Store("store_ontology", id, cnl, prolog, domain, dbOk,
              store_ontology(rules, id, cnl, prolog, domain, dbOk))

StoreDomainOntology ==
    \E id \in RuleIds, cnl \in CnlRules, prolog \in PrologRules,
       domain \in Domains, dbOk \in BOOLEAN :
        Store("store_domain_ontology", id, cnl, prolog, domain, dbOk,
              store_domain_ontology(rules, id, cnl, prolog, domain, dbOk))

Retrieve(op, domain, dbOk, rows) ==
    /\ calls < MaxOntCalls
    /\ calls' = calls + 1
    /\ last' = [op |-> op, id |-> "", domain |-> domain, ok |-> dbOk, rows |-> rows]
    /\ UNCHANGED <<tasks, cex, rules, pngs, llmCalls, blipCalls, blipConfigured,
                   failedLogs, goodLogs, lastTried, lastStore, pc>>
    /\ UNCHANGED extVars

RetrieveOntology ==
    \E domain \in Domains, dbOk \in BOOLEAN :
        Retrieve("retrieve_ontology", domain, dbOk,
                 retrieve_ontology(rules, domain, dbOk))

RetrieveDomainOntology ==
    \E domain \in Domains, dbOk \in BOOLEAN :
        Retrieve("retrieve_domain_ontology", domain, dbOk,
                 retrieve_domain_ontology(rules, domain, dbOk))

NextOnt ==
    \/ StoreOntology
    \/ StoreDomainOntology
    \/ RetrieveOntology
    \/ RetrieveDomainOntology

SpecOnt == Init /\ [][NextOnt]_vars

----------------------------------------------------------------------------
(* Claims about GraphRAG, checked under SpecOnt *)

Range(seq) == {seq[i] : i \in 1..Len(seq)}

\* The latest call was a retrieve_ontology, direct or through
\* retrieve_domain_ontology.
Retrieved == last.op \in {"retrieve_ontology", "retrieve_domain_ontology"}

RowOf(id, h) ==
    [id |-> id, cnl_rule |-> h[1].cnl_rule, prolog_rule |-> h[1].prolog_rule]

----------------------------------------------------------------------------
(* Concurrent requests (SpecConc): load_arc_task and the flow of two       *)
(* callers, one session.run per step.  Between two statements of a caller  *)
(* the other caller's statements may run.                                  *)

ConcNames == {"absent", "notest", "puzzle"}
ConcTexts == {"", "no idea"}
ConcEnvs == {<<1, FALSE>>, <<MaxStmts, FALSE>>, <<MaxStmts, TRUE>>}

\* The world caller c works on at its current step.
CWorld(c) == World(pc[c].budget, pc[c].pngFail)

\* Caller c's step leaves world w; it goes on at position at unless an
\* exception is pending, and returns res when it is done.
Step(c, w, at, found, created, res) ==
    /\ tasks' = w.tasks
    /\ cex' = w.cex
    /\ pngs' = w.pngs
    /\ llmCalls' = w.llmCalls
    /\ blipCalls' = w.blipCalls
    /\ failedLogs' = w.failedLogs
    /\ goodLogs' = w.goodLogs
    /\ pc' = [pc EXCEPT ![c] =
                [@ EXCEPT !.at = IF w.exc # NoExc THEN "done" ELSE at,
                          !.budget = w.budget,
                          !.found = found,
                          !.created = created /\ w.exc = NoExc,
                          !.res = IF w.exc # NoExc THEN Raised(w.exc) ELSE res]]
    /\ UNCHANGED <<rules, lastTried, lastStore, blipConfigured, calls, last>>
    /\ UNCHANGED extVars

\* The request arrives: the file is looked at and loaded.
ConcBegin(c) ==
    /\ pc[c].at = "idle"
    /\ \E op \in {"load_arc_task", "flow"}, name \in ConcNames,
          text \in ConcTexts, e \in ConcEnvs :
          /\ op = "load_arc_task" => text = ""
          /\ pc' = [pc EXCEPT ![c] =
                [Idle EXCEPT !.op = op, !.name = name, !.text = text,
                    !.budget = e[1], !.pngFail = e[2],
                    !.at = IF ~FileOf(name).exists \/ LoadFails(FileOf(name))
                           THEN "done" ELSE "match",
                    !.res = IF ~FileOf(name).exists
                            THEN Returned(404, ErrorBody(name))
                            ELSE IF LoadFails(FileOf(name))
                            THEN Returned(500, ErrorBody(name))
                            ELSE Raised(NoExc)]]
    /\ UNCHANGED <<tasks, cex, rules, pngs, llmCalls, blipCalls, blipConfigured,
                   calls, failedLogs, goodLogs, lastTried, lastStore, last>>
    /\ UNCHANGED extVars

\* init_puzzle_in_kg, first statement: the MATCH.
ConcMatch(c) ==
    /\ pc[c].at = "match"
    /\ LET w == MatchStmt(CWorld(c), pc[c].name)
           found == MatchTask(tasks, pc[c].name)
       IN  Step(c, w, IF found = 0 THEN "create" ELSE "grids", found, FALSE,
                pc[c].res)

\* init_puzzle_in_kg, second statement: the CREATE, run when record is None.
ConcCreate(c) ==
    /\ pc[c].at = "create"
    /\ Step(c, CreateTask(CWorld(c), pc[c].name), "grids", pc[c].found, TRUE,
            pc[c].res)

\* The images and descriptions; load_arc_task returns after them.
ConcGrids(c) ==
    /\ pc[c].at = "grids"
    /\ LET w == process_puzzle_grids(CWorld(c), pc[c].name, FileOf(pc[c].name))
       IN  IF pc[c].op = "load_arc_task"
           THEN Step(c, w, "done", pc[c].found, pc[c].created,
                     Returned(200, LoadResponse(pc[c].name, FileOf(pc[c].name),
                                                FALSE)))
           ELSE Step(c, w, "query", pc[c].found, pc[c].created, pc[c].res)

\* The LLM query and the comparison of its answer.
ConcQuery(c) ==
    /\ pc[c].at = "query"
    /\ Step(c, CompareStep(query_llm(CWorld(c)), FileOf(pc[c].name), pc[c].text),
            "log1", pc[c].found, pc[c].created, pc[c].res)

\* log_llm_solution, first statement.
ConcLog1(c) ==
    /\ pc[c].at = "log1"
    /\ Step(c, LogStmt1(CountCall(CWorld(c), pc[c].name, FlowSuccess),
                        pc[c].name, pc[c].text, FlowSuccess),
            IF FlowSuccess THEN "done" ELSE "log2", pc[c].found, pc[c].created,
            Returned(200, FlowResponse(pc[c].name, FileOf(pc[c].name),
                                       pc[c].text, FlowSuccess)))

\* log_llm_solution, second statement (success is false), and the return.
ConcLog2(c) ==
    /\ pc[c].at = "log2"
    /\ Step(c, CountReturn(LogStmt2(CWorld(c), pc[c].name, pc[c].text),
                           pc[c].name, FlowSuccess),
            "done", pc[c].found, pc[c].created,
            Returned(200, FlowResponse(pc[c].name, FileOf(pc[c].name),
                                       pc[c].text, FlowSuccess)))

NextConc ==
    \E c \in Callers :
        \/ ConcBegin(c)
        \/ ConcMatch(c)
        \/ ConcCreate(c)
        \/ ConcGrids(c)
        \/ ConcQuery(c)
        \/ ConcLog1(c)
        \/ ConcLog2(c)

SpecConc == Init /\ [][NextConc]_vars

----------------------------------------------------------------------------
(* Claims about concurrent callers, checked under SpecConc *)

\* C2: when two callers of init_puzzle_in_kg for the same puzzle name have
\* both had no record from their MATCH and have both run their CREATE, the
\* graph holds two Task nodes of that name.
C2_RaceDuplicatesTask ==
    \A c1, c2 \in Callers :
        (/\ c1 # c2
         /\ pc[c1].name = pc[c2].name
         /\ pc[c1].found = 0 /\ pc[c1].created
         /\ pc[c2].found = 0 /\ pc[c2].created)
        => Cardinality(TasksNamed(tasks, pc[c1].name)) >= 2

\* C2 witness: two Task nodes carry the same name.
C2_Witness ==
    \E n \in Names : Cardinality(TasksNamed(tasks, n)) = 2

----------------------------------------------------------------------------
(* The state machine of the LLM client (SpecLlm): one call per step, of     *)
(* query_llm itself or of a TaskManager method that invokes it.             *)

LlmNames == {"absent", "notest", "puzzle"}

\* The environments the TaskManager calls of SpecLlm run in: the query
\* times out, or is answered with a JSON array, or with an object, whose
\* validation times out, is refused, or passes.
FlowHttps ==
    {h \in Https :
        /\ h.jsonError = "RequestException"
        /\ h.query \in {NoReply, Reply(FALSE, 200, "other", Absent),
                        Reply(FALSE, 200, "object", Prop("no idea"))}
        /\ h.validate \in {NoReply, Reply(FALSE, 500, "none", Absent),
                           Reply(FALSE, 200, "object", Prop(TRUE))}}

\* A TaskManager call of SpecLlm leaves world out.w; the POSTs are those of
\* the query_llm invocations it made.
FinishLlm(op, name, h, w, out) ==
    /\ tasks' = out.w.tasks
    /\ cex' = out.w.cex
    /\ pngs' = out.w.pngs
    /\ llmCalls' = out.w.llmCalls
    /\ blipCalls' = out.w.blipCalls
    /\ failedLogs' = out.w.failedLogs
    /\ goodLogs' = out.w.goodLogs
    /\ calls' = calls + 1
    /\ llm' = [op |-> op, name |-> name, h |-> h,
               invoked |-> out.w.llmCalls - w.llmCalls,
               posts |-> IF out.w.llmCalls > w.llmCalls
                         THEN LLMClient_query_llm(h).posts ELSE <<>>,
               result |-> IF out.w.llmCalls > w.llmCalls
                          THEN LLMClient_query_llm(h) ELSE LlmRaised(NoExc, <<>>),
               res |-> out.res]
    /\ UNCHANGED <<rules, lastTried, lastStore, blipConfigured, last, pc>>
    /\ UNCHANGED extButLlm

\* LLMClient.query_llm called on its own.
LlmQuery ==
    /\ calls < MaxLlmCalls
    /\ \E h \in Https :
          /\ llm' = [op |-> "query_llm", name |-> "", h |-> h, invoked |-> 1,
                     posts |-> LLMClient_query_llm(h).posts,
                     result |-> LLMClient_query_llm(h),
                     res |-> IF LLMClient_query_llm(h).exc # NoExc
                             THEN Raised(LLMClient_query_llm(h).exc)
                             ELSE Returned(200, NoBody)]
          /\ llmCalls' = llmCalls + 1
          /\ calls' = calls + 1
    /\ UNCHANGED <<tasks, cex, rules, pngs, blipCalls, blipConfigured, failedLogs,
                   goodLogs, lastTried, lastStore, last, pc>>
    /\ UNCHANGED extButLlm

LlmFlow ==
    /\ calls < MaxLlmCalls
    /\ \E name \in LlmNames, h \in FlowHttps, b \in {0, MaxStmts} :
          /\ (name \notin LoadedNames => b = MaxStmts)
          /\ FinishLlm("flow", name, h, World(b, FALSE),
                       flow_with_llm(World(b, FALSE), name, h))

LlmAttempt ==
    /\ calls < MaxLlmCalls
    /\ \E name \in LlmNames \cap LoadedNames, h \in FlowHttps, b \in {0, MaxStmts} :
          FinishLlm("attempt_solution", name, h, World(b, FALSE),
                    attempt_with_llm(World(b, FALSE), name, h))

\* log_llm_solution recording a success, which attempt_solution later finds.
LlmLog ==
    /\ calls < MaxLlmCalls
    /\ \E name \in LlmNames \cap LoadedNames :
          FinishLlm("log_llm_solution", name, NoLlm.h, World(MaxStmts, FALSE),
                    Outcome(log_llm_solution(World(MaxStmts, FALSE), name,
                                             "no idea", TRUE),
                            Returned(200, NoBody)))

NextLlm == LlmQuery \/ LlmFlow \/ LlmAttempt \/ LlmLog

SpecLlm == Init /\ [][NextLlm]_vars

\* The query endpoint answered 200, the validation endpoint answered 200 and
\* the validation body has valid = true.
AllOk(h) ==
    /\ ~h.query.fail /\ h.query.status = 200
    /\ ~h.validate.fail /\ h.validate.status = 200
    /\ h.validate.value = Prop(TRUE)

\* C12: query_llm raises nothing; it returns the LLM's response dict
\* unchanged exactly when both endpoints answered 200 and the validation
\* body has valid = true, and a dict with the key "error" otherwise.
C12_ResponseOrErrorDict ==
    llm.op = "query_llm"
    => (/\ llm.result.exc = NoExc
        /\ (AllOk(llm.h) => llm.result = ResponseDict(llm.h.query, llm.result.posts))
        /\ (~AllOk(llm.h) => llm.result.error # Absent))

\* The POSTs of one query_llm invocation: one to the query endpoint, then at
\* most one to the validation endpoint, and that one only after the query
\* endpoint answered 200.
NoRetry ==
    llm.invoked > 0
    => (/\ llm.posts \in {<<"query">>, <<"query", "validate">>}
        /\ (Len(llm.posts) = 2 => (~llm.h.query.fail /\ llm.h.query.status = 200)))

\* C13 as stated: no retry inside query_llm, and every call of
\* _process_full_puzzle_flow or attempt_solution invokes query_llm exactly
\* once.
C13_InvokedExactlyOnce ==
    /\ NoRetry
    /\ (llm.op \in {"flow", "attempt_solution"} => llm.invoked = 1)

\* C13 amended: no retry inside query_llm; a call of
\* _process_full_puzzle_flow or attempt_solution invokes query_llm at most
\* once, exactly once when the flow returns 200 or attempt_solution returns
\* success false, and not at all when the flow returns 404 or 500 or
\* attempt_solution returns the stored success.
C13_InvokedAtMostOnce ==
    /\ NoRetry
    /\ (llm.op \in {"flow", "attempt_solution"} => llm.invoked \in {0, 1})
    /\ ((llm.op = "flow" /\ ~llm.res.raised)
            => (llm.invoked = 1 <=> llm.res.status = 200))
    /\ ((llm.op = "attempt_solution" /\ ~llm.res.raised)
            => (llm.invoked = 1 <=> ~llm.res.body.success))

\* A flow whose query timed out returned 200 after the one POST.
C13_Witness ==
    /\ llm.op = "flow"
    /\ ~llm.res.raised /\ llm.res.status = 200
    /\ llm.h.query.fail
    /\ llm.invoked = 1
    /\ llm.posts = <<"query">>

----------------------------------------------------------------------------
(* The state machine of the feedback store (SpecFb): one call per step of   *)
(* UserFeedback or of ControlAgent.audit_ai_trust, on a graph that holds    *)
(* Task nodes from the start.                                               *)

InitFb ==
    /\ tasks \in FbGraphs
    /\ guess = NoGuess
    /\ InitRest

FbCall(op, sid, tid, node, ok, result, rows, audit) ==
    fb' = [op |-> op, sid |-> sid, tid |-> tid, node |-> node, ok |-> ok,
           result |-> result, before |-> Len(kg.feedbacks), rows |-> rows,
           audit |-> audit]

SubmitFeedback ==
    /\ submits < MaxSubmits
    /\ \E sid \in SessionIds, tid \in TaskIds, rating \in Ratings, dbOk \in BOOLEAN :
          LET node == FeedbackNode("good", rating, Absent)
              r == submit_feedback(tasks, kg, sid, tid, node, dbOk)
          IN  /\ kg' = r.kg
              /\ FbCall("submit_feedback", sid, tid, node, dbOk, r.result, <<>>,
                        AuditError)
              /\ fbMatched' = fbMatched +
                    (IF dbOk /\ TasksWithId(tasks, tid) # {} THEN 1 ELSE 0)
    /\ submits' = submits + 1
    /\ UNCHANGED <<coreVars, extButFb>>

GetFeedback ==
    /\ \E tid \in TaskIds, dbOk \in BOOLEAN :
          FbCall("get_feedback", "", tid, NoFb.node, dbOk, FALSE,
                 get_feedback(tasks, kg, tid, dbOk), AuditError)
    /\ UNCHANGED <<coreVars, extButFb, kg, fbMatched, submits>>

UpdateAiTrustScore ==
    /\ \E tid \in TaskIds, budget \in 0..2 :
          /\ tasks' = update_ai_trust_score(tasks, kg, tid, budget)
          /\ FbCall("update_ai_trust_score", "", tid, NoFb.node, budget = 2, FALSE,
                    <<>>, AuditError)
    /\ UNCHANGED <<cex, rules, pngs, llmCalls, blipCalls, blipConfigured, calls,
                   failedLogs, goodLogs, lastTried, lastStore, last, pc>>
    /\ UNCHANGED <<extButFb, kg, fbMatched, submits>>

AuditAiTrust ==
    /\ \E dbOk \in BOOLEAN :
          FbCall("audit_ai_trust", "", "", NoFb.node, dbOk, FALSE, <<>>,
                 audit_ai_trust(tasks, dbOk))
    /\ UNCHANGED <<coreVars, extButFb, kg, fbMatched, submits>>

NextFb == SubmitFeedback \/ GetFeedback \/ UpdateAiTrustScore \/ AuditAiTrust

SpecFb == InitFb /\ [][NextFb]_vars

\* C14: a submit_feedback call that returned True has stored a new Feedback
\* node with the given feedback, rating and correction, which
\* get_feedback(task_id) returns, whether or not a Task with the id exists.
C14_TrueMeansStored ==
    (fb.op = "submit_feedback" /\ fb.result)
    => (/\ Len(kg.feedbacks) > fb.before
        /\ kg.feedbacks[Len(kg.feedbacks)] = fb.node
        /\ \E i \in 1..Len(get_feedback(tasks, kg, fb.tid, TRUE)) :
              get_feedback(tasks, kg, fb.tid, TRUE)[i] = fb.node)

\* The Task nodes whose ai_trust_score is set and below 0.7, as audit rows.
RECURSIVE LowTrust(_, _)
LowTrust(ts, i) ==
    IF i > Len(ts) THEN <<>>
    ELSE (IF ts[i].ai_trust_score # Absent /\ Below07(ts[i].ai_trust_score[1])
          THEN <<[task_id |-> ts[i].id, trust_score |-> ts[i].ai_trust_score[1]]>>
          ELSE <<>>) \o LowTrust(ts, i + 1)

\* C17: on every graph, Tasks without ai_trust_score included, an
\* audit_ai_trust call whose query ran returns {"audit_results": L} with L
\* exactly the Task nodes whose ai_trust_score is below 0.7.
C17_AuditListsLowTrust ==
    (fb.op = "audit_ai_trust" /\ fb.ok)
    => fb.audit = [error |-> FALSE, audit_results |-> LowTrust(tasks, 1)]

----------------------------------------------------------------------------
(* The state machine of the rule validation (SpecProlog): one call of       *)
(* validate_rule_against_test_cases per step.                               *)

TestRuns == UNION {[1..n -> TestAnswers] : n \in 0..MaxTests}

\* __init__ consulting the Prolog files, before any validation.
Consult ==
    /\ pl.op = "none"
    /\ kb' \in PlKbs
    /\ pl' = [NoPl EXCEPT !.op = "consult"]
    /\ UNCHANGED <<coreVars, extButPl, plCalls>>

\* The engine is asked only as far as the call gets: not at all about a rule
\* it cannot parse, and about no contradiction or counterfactual once a test
\* case failed or a contradiction was found.
Asked(rule, tests, e) ==
    /\ (Malformed(rule) => tests = <<>>)
    /\ ((Malformed(rule) \/ \E i \in 1..Len(tests) : tests[i] # "right")
            => e.contra = "error")
    /\ (e.contra # "none" => ~e.negOk)

Validate ==
    /\ plCalls < MaxPlCalls
    /\ \E rule \in PlRules, tests \in TestRuns, e \in PlEnvs :
          LET r == validate_rule_against_test_cases(kb, rule, tests, e)
          IN  /\ Asked(rule, tests, e)
              /\ kb' = r.kb
              /\ pl' = [op |-> "validate", rule |-> rule, tests |-> tests,
                        env |-> e, before |-> kb, raised |-> r.raised,
                        value |-> r.value]
    /\ plCalls' = plCalls + 1
    /\ UNCHANGED <<coreVars, extButPl>>

NextProlog == Consult \/ Validate

SpecProlog == Init /\ [][NextProlog]_vars

\* C15: on every return path of validate_rule_against_test_cases the
\* knowledge base after the call is the one before it.
C15_KbRestored ==
    (pl.op = "validate" /\ ~pl.raised) => kb = pl.before

\* C16: validate_rule_against_test_cases never raises and returns True
\* exactly when every test case's query gave the expected first result,
\* detect_logical_contradictions returned False and test_counterfactuals
\* returned True.
C16_TrueIffAllPass ==
    pl.op = "validate"
    => (/\ ~pl.raised
        /\ pl.value <=>
             (/\ \A i \in 1..Len(pl.tests) : pl.tests[i] = "right"
              /\ ~detect_logical_contradictions(pl.env)
              /\ test_counterfactuals(Append(pl.before, pl.rule), pl.rule,
                                      pl.env).ok))

(***************************************************************************)
(* GET /export (SpecExport)                                                *)
(***************************************************************************)

\* The environment is varied only where the request meets it.
ExAsked(fmt, e) ==
    /\ (~e.dirOk \/ fmt \notin Formats) => e.fetch = "empty"
    /\ e.fetch # "rows" => e.write = "ok"

Export ==
    /\ exCalls < MaxExports
    /\ \E domain \in ExDomains, fmt \in AskedFormats, e \in ExEnvs :
          LET r == export_data(exFiles, exOpen, domain, fmt, e)
          IN  /\ ExAsked(fmt, e)
              /\ exFiles' = r.files
              /\ exOpen' = r.open
              /\ ex' = [op |-> "export", domain |-> domain, format |-> fmt,
                        env |-> e, filesBefore |-> exFiles,
                        openBefore |-> exOpen, raised |-> r.raised,
                        status |-> r.status]
    /\ exCalls' = exCalls + 1
    /\ UNCHANGED <<coreVars, extButEx>>

NextExport == Export

SpecExport == Init /\ [][NextExport]_vars

\* C18: on every path of export_data the KGDataExport created for the
\* request is closed before the request ends, and an unknown format or an
\* empty result yields status 400 without any file being written.
C18_ClosedOnEveryPath ==
    ex.op = "export"
    => (/\ exOpen = ex.openBefore
        /\ (ex.format \notin Formats \/ ex.env.fetch # "rows")
              => (ex.status = 400 /\ exFiles = ex.filesBefore))

(***************************************************************************)
(* parse_llm_guess on every response (SpecParse)                           *)
(***************************************************************************)

InitParse ==
    /\ tasks = <<>>
    /\ guess \in {[text |-> t, done |-> FALSE, out |-> <<>>] : t \in Texts}
    /\ InitRest

Parse ==
    /\ ~guess.done
    /\ guess' = [guess EXCEPT !.done = TRUE, !.out = parse_llm_guess(guess.text)]
    /\ UNCHANGED <<coreVars, extButParse>>

NextParse == Parse

SpecParse == InitParse /\ [][NextParse]_vars

\* The first colour between the brackets of a colour list.
FirstColour(g) == CASE g = "2" -> 2 [] g = "0, 3" -> 0 [] OTHER -> 1

\* C19: parse_llm_guess never raises; (a) an empty or non-string input yields
\* the fixed message, (b) a string that is JSON for a list yields that list,
\* (c) any other string with both a grid-size and a colour-list match yields
\* the R-by-C grid filled with the first listed colour, (d) every remaining
\* string is returned unchanged.
C19_ParseCases ==
    guess.done
    => LET t == guess.text
           o == guess.out
       IN  /\ o.exc = NoExc
           /\ CASE t = "" \/ t = DictText ->
                     o.kind = "str" /\ o.text = EmptyMessage
                [] t \in {"[[2]]", "[]"} ->
                     o.kind = "list" /\ o.grid = (IF t = "[]" THEN <<>> ELSE G2)
                [] \E m \in MatchTexts :
                       m.text = t /\ m.size # <<>> /\ m.colors # <<>> ->
                     LET m == CHOOSE n \in MatchTexts : n.text = t
                     IN  /\ o.kind = "list"
                         /\ o.grid = [r \in 1..m.size[1] |->
                                        [c \in 1..m.size[2] |->
                                            FirstColour(m.colors[1])]]
                [] OTHER -> o.kind = "str" /\ o.text = t

====
